---- MODULE Spec2Model ----
(***************************************************************************)
(* Model of the two telemetry simulator loops of smart-vehicle-twin:       *)
(*   - src/sim/pro_sim.py   main()          (prog = "pro")                 *)
(*   - src/sim/simulator.py module-level main loop (prog = "sim")          *)
(*                                                                         *)
(* One behaviour of the model is one run of one of the two programs; the   *)
(* program is chosen in Init and the other program's variables stay at     *)
(* their initial values.                                                   *)
(*                                                                         *)
(* Spec follows the two loops from their first iteration in an environment *)
(* where nothing fails.  EnvSpec starts before startup and lets the broker,*)
(* the disk and the configuration file fail.  ScorerSpec applies the risk  *)
(* scorers to given tick states.  DashSpec follows the auto-inference      *)
(* controls of src/src/dashboard.py (prog = "dash").                       *)
(*                                                                         *)
(* Floats are modelled as fixed-point integers (floor division where the   *)
(* quotient is not exact).  Units:                                         *)
(*   pro_sim.py : t, dt            ms          speed, speed_mps  0.01 km/h *)
(*                dist             mm          accel             mm/s^2    *)
(*                temp             0.001 C     soc               0.001 %   *)
(*                pad, tire        1e-7        throttle, brake   0.001     *)
(*   simulator.py: speed_kph       0.01 km/h   accel_mps2        mm/s^2    *)
(*                distances        mm          battery_soc       0.001 %   *)
(*                brake_temp       0.001 C     brake_pad, tire   1e-7      *)
(* Written rows hold the values after Python's round(x, n), in the unit of *)
(* the n-th decimal.  rpm, GPS position and the wall-clock timestamp are   *)
(* not modelled: no other variable is computed from them.                  *)
(***************************************************************************)
EXTENDS Integers, Sequences, FiniteSets, TLC

VARIABLES
    prog,     \* which program runs: "pro" (pro_sim.py) or "sim" (simulator.py)
    pc,       \* "start": before startup; "loop": at the loop test; "done":
              \* left the loop; "crashed": ended by an uncaught exception
    args,     \* pro_sim.py command line: laps, dt, failures
    cfg,      \* simulator.py configuration (configs/bmw_i4.json)
    pro,      \* local variables of pro_sim.py main()
    sim,      \* module-level variables of simulator.py
    hist,     \* data/history.csv : sequence of rows
    latest,   \* data/latest.csv  : sequence of rows (header only = << >>)
    lapf,     \* data/lap_features.csv : sequence of lap summaries
    rng,      \* the run's random stream: the value of each uniform draw
    inj,      \* failure draws taken so far: [n |-> count, last |-> last draw]
    ev,       \* what the last loop iteration did (d_step: the distance it
              \* added), and what it would have written without a failure
              \* draw (observation only)
    iter,     \* number of loop iterations completed (observation only)
    env,      \* what the run finds around it: the MQTT broker, the disk under
              \* data/, the content of configs/bmw_i4.json
    client,   \* pro_sim.py `client` / simulator.py `mqtt_client`:
              \* "unset" before startup, "none" (None) or "connected"
    dash      \* src/src/dashboard.py: flag (data/_auto_infer.flag exists), thr
              \* (position of each runner thread started), and for
              \* observation stale (runners alive at a Stop click) and again
              \* (stale runners that launched another inference run)

vars == <<prog, pc, args, cfg, pro, sim, hist, latest, lapf, rng, inj, ev,
          iter, env, client, dash>>

----------------------------------------------------------------------------
(* Bounds of the model *)

\* number of failure injections per run whose mode and magnitude are drawn
\* freely; any further injection of the run repeats the last draw
MaxFail == 1
\* number of loop iterations of simulator.py (its loop is `while True`)
MaxTick == 8
\* number of clicks on "Start auto-inference" followed in the dashboard
MaxThreads == 3

----------------------------------------------------------------------------
(* Arithmetic helpers *)

Max(a, b) == IF a >= b THEN a ELSE b
Min(a, b) == IF a <= b THEN a ELSE b
Abs(a) == IF a >= 0 THEN a ELSE 0 - a

\* Python round(x, n): x given in units 1/q of the n-th decimal; round half
\* to even (\div is floor division, % is non-negative).
Round(x, q) ==
    LET f == x \div q
        r == x % q
    IN  IF 2 * r < q THEN f
        ELSE IF 2 * r > q THEN f + 1
        ELSE IF f % 2 = 0 THEN f ELSE f + 1

RECURSIVE SeqSum(_)
SeqSum(s) == IF s = << >> THEN 0 ELSE Head(s) + SeqSum(Tail(s))

RECURSIVE SeqMax(_)
SeqMax(s) == IF Len(s) = 1 THEN Head(s) ELSE Max(Head(s), SeqMax(Tail(s)))

\* math.sin(x), x in mrad, result in 0.001 (Bhaskara's rational
\* approximation on each half period, |error| < 0.002)
SinHalf(x) ==
    LET p == (x * (3142 - x)) \div 1000
    IN  (16000 * p) \div (49348 - 4 * p)
Sin(x) ==
    LET y == x % 6284
    IN  IF y <= 3142 THEN SinHalf(y) ELSE 0 - SinHalf(y - 3142)

\* Linear interpolation of y between (x0,y0) and (x1,y1)
Interp(x, x0, y0, x1, y1) == y0 + ((y1 - y0) * (x - x0)) \div (x1 - x0)

\* (temp/120.0)**1.2 in 0.001, temp in 0.001 C (piecewise linear between the
\* exact values at 0, 60, 120, 240, 480, 960, 1920 C)
Pow12(temp) ==
    LET d == temp \div 100
    IN  IF d <= 600 THEN Interp(d, 0, 0, 600, 435)
        ELSE IF d <= 1200 THEN Interp(d, 600, 435, 1200, 1000)
        ELSE IF d <= 2400 THEN Interp(d, 1200, 1000, 2400, 2297)
        ELSE IF d <= 4800 THEN Interp(d, 2400, 2297, 4800, 5278)
        ELSE IF d <= 9600 THEN Interp(d, 4800, 5278, 9600, 12126)
        ELSE Interp(d, 9600, 12126, 19200, 27858)

----------------------------------------------------------------------------
(* pro_sim.py : parameters *)

LAP_M == 5300000            \* TRACK_KM * 1000 m, in mm
MAX_SPEED == 24000          \* 240.0 kph
MAX_ACCEL == 4              \* m/s^2
MAX_BRAKE == 7              \* m/s^2
BASE_SOC_DROP == 40         \* 0.0004 * 100 %, in 0.001 %
TEMP_COOL_RATE == 250       \* 0.25 C
TEMP_HEAT_RATE == 1600      \* 1.6 C
PAD_WEAR_RATE == 1500       \* 0.00015, in 1e-7
TIRE_WEAR_RATE == 1000      \* 0.00010, in 1e-7
TEMP_FLOOR == 20000         \* max(20.0, ...) in the cooling step
SOC_FLOOR == 3000           \* loop test: soc > 3.0
WEAR_FLOOR == 500000        \* loop test: pad > 0.05 and tire > 0.05

\* values of --dt tried (ms): 20 s and 30.004 s
DtSet == {20000, 30004}
\* random.uniform(-0.05, 0.05) of control_pattern (the same in every
\* iteration of a run)
NoiseSet == {-50, 50}
\* 0.6 + 0.3*random.random() of control_pattern
BrakeSet == {600, 899}

\* The failure draws of pro_sim.py: mode and the random magnitude
\*   brake_overheat: 30 + 40*random.random()    in [30, 70)
\*   battery_spike : 5 + 8*random.random()      in [5, 13)
\*   sensor_glitch : random.uniform(-30, 30)
ProFailures ==
    { [mode |-> "brake_overheat", mag |-> 30000],
      [mode |-> "brake_overheat", mag |-> 69999],
      [mode |-> "battery_spike", mag |-> 5000],
      [mode |-> "battery_spike", mag |-> 12999],
      [mode |-> "sensor_glitch", mag |-> -3000],
      [mode |-> "sensor_glitch", mag |-> 3000] }

ProNoFailure == [mode |-> "none", mag |-> 0]

\* The outcomes of `random.random() < p` and of the draws that follow it in
\* this iteration, given the draws `d` a program can make: no injection
\* (`none`), a free draw while fewer than MaxFail were made, a repeat of the
\* last draw.
FailChoices(none, d) ==
    {none}
        \cup (IF inj.n < MaxFail THEN d ELSE {})
        \cup (IF inj.n >= 1 THEN {inj.last} ELSE {})

InjAfter(f) ==
    IF f.mode = "none" THEN inj ELSE [n |-> Min(inj.n + 1, MaxFail + 1), last |-> f]

----------------------------------------------------------------------------
(* pro_sim.py : main() *)

\* control_pattern(tt): throttle
Throttle(tt, noise) ==
    Max(0, Min(1000, 550 + (400 * Sin((15 * tt) \div 100)) \div 1000 + noise))

\* control_pattern(tt): the brake is applied when (tt % 28.0) > 23.0
InBrakeWindow(tt) == (tt % 28000) > 23000

BrakeChoices(tt) == IF InBrakeWindow(tt) THEN BrakeSet ELSE {0}

LoopCond_NoSocFloor(p, a) ==
    /\ p.lap <= a.laps
    /\ p.pad > WEAR_FLOOR
    /\ p.tire > WEAR_FLOOR

\* while lap <= args.laps and soc > 3.0 and pad > 0.05 and tire > 0.05
LoopCond(p, a) ==
    /\ p.lap <= a.laps
    /\ p.soc > SOC_FLOOR
    /\ p.pad > WEAR_FLOOR
    /\ p.tire > WEAR_FLOOR

\* dynamics: accel, speed_mps (after drag), speed, d_step
Kinematics(speed, dt, thr, brk) ==
    LET accel == thr * MAX_ACCEL - brk * MAX_BRAKE
        v1 == Max(0, speed + (accel * dt * 9) \div 25000)
        drag == ((v1 \div 10) * (v1 \div 10) * 35) \div 360000
        v2 == Max(0, v1 - drag)
    IN  [accel |-> accel,
         speed_mps |-> v2,
         speed |-> Min(MAX_SPEED, v2),
         d_step |-> (v2 * (dt \div 4)) \div 90]

\* temperatures: cool, then heat under braking / high throttle / high speed
TempStep(temp, thr, brk, speed) ==
    LET cooled == Max(TEMP_FLOOR, temp - TEMP_COOL_RATE)
    IN  IF brk > 50 \/ thr > 850 \/ speed > 16000
        THEN cooled + (TEMP_HEAT_RATE * (500 + brk + (4 * thr) \div 10)) \div 1000
        ELSE cooled

\* soc_drop*100 = BASE_SOC_DROP*(1 + (speed/120)**2 + (temp/120)**1.2)*100
SocDrop(speed, temp) ==
    (BASE_SOC_DROP
        * (1000 + ((speed \div 10) * (speed \div 10)) \div 1440 + Pow12(temp)))
    \div 1000

\* soc = max(0.0, soc - soc_drop*100)
SocStep(soc, speed, temp) == Max(0, soc - SocDrop(speed, temp))

\* pad = max(0.0, pad - PAD_WEAR_RATE*(brake + 0.3*speed/200.0))
PadStep(pad, brk, speed) ==
    Max(0, pad - (PAD_WEAR_RATE * (brk + (3 * speed) \div 200)) \div 1000)

TireStep_Add(tire, speed, accel) ==
    tire + (TIRE_WEAR_RATE * (speed \div 22 + Abs(accel) \div MAX_BRAKE)) \div 1000

\* tire = max(0.0, tire - TIRE_WEAR_RATE*(speed/220.0 + abs(accel)/MAX_BRAKE))
TireStep(tire, speed, accel) ==
    Max(0, tire - (TIRE_WEAR_RATE * (speed \div 22 + Abs(accel) \div MAX_BRAKE))
                    \div 1000)

ProInject_Silent(s, f) ==
    IF f.mode = "brake_overheat" THEN
        [temp |-> s.temp + f.mag, soc |-> s.soc, speed |-> s.speed,
         risk |-> 0, reasons |-> "nominal"]
    ELSE IF f.mode = "battery_spike" THEN
        [temp |-> s.temp, soc |-> Max(0, s.soc - f.mag), speed |-> s.speed,
         risk |-> 0, reasons |-> "nominal"]
    ELSE IF f.mode = "sensor_glitch" THEN
        [temp |-> s.temp, soc |-> s.soc, speed |-> Max(0, s.speed + f.mag),
         risk |-> 0, reasons |-> "nominal"]
    ELSE
        [temp |-> s.temp, soc |-> s.soc, speed |-> s.speed,
         risk |-> 0, reasons |-> "nominal"]

\* random failures: s = [temp, soc, speed], f = the draw
ProInject(s, f) ==
    IF f.mode = "brake_overheat" THEN
        [temp |-> s.temp + f.mag, soc |-> s.soc, speed |-> s.speed,
         risk |-> 900, reasons |-> "random_failure: brake_overheat"]
    ELSE IF f.mode = "battery_spike" THEN
        [temp |-> s.temp, soc |-> Max(0, s.soc - f.mag), speed |-> s.speed,
         risk |-> 700, reasons |-> "random_failure: battery_spike"]
    ELSE IF f.mode = "sensor_glitch" THEN
        [temp |-> s.temp, soc |-> s.soc, speed |-> Max(0, s.speed + f.mag),
         risk |-> 500, reasons |-> "random_failure: sensor_glitch"]
    ELSE
        [temp |-> s.temp, soc |-> s.soc, speed |-> s.speed,
         risk |-> 0, reasons |-> "nominal"]

ProRisk_Unclamped(risk, temp, pad, tire) ==
    Max(risk, temp \div 300 + (10000000 - pad) \div 20000
                  + (10000000 - tire) \div 40000)

\* risk = max(risk, min(1.0, 0.4*(temp/120.0) + 0.5*(1.0-pad) + 0.25*(1.0-tire)))
ProRisk(risk, temp, pad, tire) ==
    Max(risk, Min(1000, temp \div 300 + (10000000 - pad) \div 20000
                          + (10000000 - tire) \div 40000))

ProRow_AfterRollover(p, risk, reasons) ==
    [lap |-> IF (p.dist - p.lap_dist_start) >= LAP_M THEN p.lap + 1 ELSE p.lap,
     speed_kph |-> Round(p.speed, 1),
     accel_mps2 |-> Round(p.accel, 1),
     distance_m |-> Round(p.dist, 10),
     brake_temp_c |-> Round(p.temp, 10),
     battery_soc |-> Round(p.soc, 10),
     brake_pad_frac |-> Round(p.pad, 1000),
     tire_wear_frac |-> Round(p.tire, 1000),
     risk |-> Round(risk, 1),
     reasons |-> reasons]

\* the row written to history.csv and latest.csv (values after round())
ProRow(p, risk, reasons) ==
    [lap |-> p.lap,
     speed_kph |-> Round(p.speed, 1),
     accel_mps2 |-> Round(p.accel, 1),
     distance_m |-> Round(p.dist, 10),
     brake_temp_c |-> Round(p.temp, 10),
     battery_soc |-> Round(p.soc, 10),
     brake_pad_frac |-> Round(p.pad, 1000),
     tire_wear_frac |-> Round(p.tire, 1000),
     risk |-> Round(risk, 1),
     reasons |-> reasons]

LapComplete_TotalDistance(p) == p.dist >= LAP_M

\* lap complete?
LapComplete(p) == (p.dist - p.lap_dist_start) >= LAP_M

\* the row appended to lap_features.csv
LapSummary(p) ==
    [lap |-> p.lap,
     lap_time_sec |-> Round(p.t - p.lap_start_t, 10),
     speed_mean |-> IF p.speed_hist = << >> THEN 0
                    ELSE Round(SeqSum(p.speed_hist), Len(p.speed_hist)),
     speed_max |-> IF p.speed_hist = << >> THEN 0 ELSE SeqMax(p.speed_hist),
     brake_temp_max |-> Round(p.lap_temp_max, 10),
     soc_drop |-> Round(Max(0, p.lap_soc_start - p.soc), 10)]

ResetLap_ZeroDist(p) ==
    [p EXCEPT !.lap = p.lap + 1,
              !.lap_start_t = p.t,
              !.dist = 0,
              !.lap_dist_start = 0,
              !.lap_soc_start = p.soc,
              !.lap_temp_max = p.temp,
              !.speed_hist = << >>]

ResetLap_KeepSpeedHist(p) ==
    [p EXCEPT !.lap = p.lap + 1,
              !.lap_start_t = p.t,
              !.lap_dist_start = p.dist,
              !.lap_soc_start = p.soc,
              !.lap_temp_max = p.temp]

ResetLap_KeepStartTime(p) ==
    [p EXCEPT !.lap = p.lap + 1,
              !.lap_dist_start = p.dist,
              !.lap_soc_start = p.soc,
              !.lap_temp_max = p.temp,
              !.speed_hist = << >>]

ResetLap_KeepStartSoc(p) ==
    [p EXCEPT !.lap = p.lap + 1,
              !.lap_start_t = p.t,
              !.lap_dist_start = p.dist,
              !.lap_temp_max = p.temp,
              !.speed_hist = << >>]

\* reset lap
ResetLap(p) ==
    [p EXCEPT !.lap = p.lap + 1,
              !.lap_start_t = p.t,
              !.lap_dist_start = p.dist,
              !.lap_soc_start = p.soc,
              !.lap_temp_max = p.temp,
              !.speed_hist = << >>]

LoopExit_LapsOnly(p, a) == p.lap > a.laps

\* the loop test fails: control reaches print("Simulation finished.")
LoopExit(p, a) == ~LoopCond(p, a)

\* next tick
NextTick(p, dt) == [p EXCEPT !.t = p.t + dt, !.tick = p.tick + 1]

\* One iteration of the loop body up to and including the row: the state
\* after the dynamics, the wear and battery step and the failure injection.
ProUpdate(p, a, noise, b, f) ==
    LET thr == Throttle(p.t, noise)
        k == Kinematics(p.speed, a.dt, thr, b)
        temp1 == TempStep(p.temp, thr, b, k.speed)
        soc1 == SocStep(p.soc, k.speed, temp1)
        j == ProInject([temp |-> temp1, soc |-> soc1, speed |-> k.speed], f)
        pad1 == PadStep(p.pad, b, k.speed)
        tire1 == TireStep(p.tire, k.speed, k.accel)
    IN  [p |-> [p EXCEPT !.accel = k.accel,
                         !.speed = j.speed,
                         !.dist = p.dist + k.d_step,
                         !.speed_hist = Append(p.speed_hist, k.speed),
                         !.temp = j.temp,
                         !.soc = j.soc,
                         !.pad = pad1,
                         !.tire = tire1,
                         !.lap_temp_max = Max(p.lap_temp_max, j.temp)],
         risk |-> ProRisk(j.risk, j.temp, pad1, tire1),
         reasons |-> j.reasons,
         d_step |-> k.d_step,
         speed_mps |-> k.speed_mps]

ProInit ==
    [t |-> 0, lap |-> 1, lap_start_t |-> 0, dist |-> 0, speed |-> 0,
     accel |-> 0, temp |-> 60000, soc |-> 100000, pad |-> 10000000,
     tire |-> 10000000, lap_dist_start |-> 0, lap_soc_start |-> 100000,
     lap_temp_max |-> 60000, speed_hist |-> << >>, tick |-> 0]

----------------------------------------------------------------------------
(* simulator.py : configuration and helpers *)

\* configs tried: the code's defaults with a 120 s tick, and a 100 m lap
\* with a 1 s tick and a cooler ambient
CfgSet ==
    { [ambient_C |-> 30000, temp_max_C |-> 95000,
       brake_wear_threshold |-> 2000000, soc_min_pct |-> 15000,
       lap_length_m |-> 5100000, tick_sec |-> 120],
      [ambient_C |-> 25000, temp_max_C |-> 95000,
       brake_wear_threshold |-> 2000000, soc_min_pct |-> 15000,
       lap_length_m |-> 100000, tick_sec |-> 1] }

TEMP_CEIL == 160000         \* min(160.0, brake_temp)
SPEED_CEIL == 28000         \* min(280.0, speed_kph)
PAD_FLOOR == 500000         \* max(0.05, brake_pad)
ONE == 10000000             \* 1.0 of a pad / tire fraction

\* The uniform draws of simulator.py other than the failure injection are
\* the same in every iteration of a run (variable rng):
\* u: where in its interval the speed target falls (0.001), for
\*    random.uniform(140, 240) and, in a braking zone, random.uniform(60, 120)
USet == {0, 1000}
TargetOf(zone, u) ==
    IF zone THEN 6000 + (6000 * u) \div 1000 ELSE 14000 + (10000 * u) \div 1000
\* random.uniform(0.05, 0.15)
FactorSet == {50, 150}
\* <<random.uniform(0.5, 1.5) of the brake heating,
\*   random.uniform(5, 10) of the lap-rollover cooling>> : both low, both high
HeatCoolSet == {<<500, 5000>>, <<1500, 10000>>}
\* failure injection: <<random.uniform(15, 30), random.uniform(1.0, 2.0)>>
SimFailures ==
    { [mode |-> "injection", mag |-> <<15000, 1000>>],
      [mode |-> "injection", mag |-> <<30000, 2000>>] }

SimNoFailure == [mode |-> "none", mag |-> <<0, 0>>]

\* in_brake_zone(lap_distance / LAP_LEN if LAP_LEN > 0 else 0) with
\* BRAKES = [(0.18, 0.24), (0.52, 0.58), (0.82, 0.86)]
InBrakeZone(lap_distance, c) ==
    LET in(a, b) == /\ a * c.lap_length_m <= 100 * lap_distance
                    /\ 100 * lap_distance <= b * c.lap_length_m
    IN  IF c.lap_length_m > 0
        THEN in(18, 24) \/ in(52, 58) \/ in(82, 86)
        ELSE FALSE

RiskAndReasons_SocFirst(g, c) ==
    LET hot == g.brake_temp > c.temp_max_C
        worn == g.brake_pad < c.brake_wear_threshold
        low == g.battery_soc < c.soc_min_pct
        rs == (IF low THEN <<"low SOC">> ELSE << >>)
                \o (IF hot THEN <<"high brake temp">> ELSE << >>)
                \o (IF worn THEN <<"low pad">> ELSE << >>)
    IN  [risk |-> IF rs = << >> THEN 0 ELSE 500000,
         reasons |-> IF rs = << >> THEN <<"nominal">> ELSE rs]

RiskAndReasons_NoTempRisk(g, c) ==
    LET hot == g.brake_temp > c.temp_max_C
        worn == g.brake_pad < c.brake_wear_threshold
        low == g.battery_soc < c.soc_min_pct
        r2 == IF worn
              THEN (15 * Min(c.brake_wear_threshold - g.brake_pad, 4000000))
                       \div 100
              ELSE 0
        r3 == IF low
              THEN 25 * Min(c.soc_min_pct - g.battery_soc, 20000)
              ELSE 0
        rs == (IF hot THEN <<"high brake temp">> ELSE << >>)
                \o (IF worn THEN <<"low pad">> ELSE << >>)
                \o (IF low THEN <<"low SOC">> ELSE << >>)
    IN  [risk |-> Max(0, Min(1000000, r2 + r3)),
         reasons |-> IF rs = << >> THEN <<"nominal">> ELSE rs]

\* risk_and_reasons(): the risk returned, in 1e-6 (the row rounds it to 3
\* decimals), and the reasons without the values formatted into them
\*   min((brake_temp - TEMP_MAX)/40, 1)*0.6 = 15e-6 per 0.001 C, at most 0.6
\*   min((PAD_MIN - brake_pad)/0.4, 1)*0.6  = 0.15e-6 per 1e-7, at most 0.6
\*   min((SOC_MIN - battery_soc)/20, 1)*0.5 = 25e-6 per 0.001 %, at most 0.5
RiskAndReasons(g, c) ==
    LET hot == g.brake_temp > c.temp_max_C
        worn == g.brake_pad < c.brake_wear_threshold
        low == g.battery_soc < c.soc_min_pct
        r1 == IF hot
              THEN 15 * Min(g.brake_temp - c.temp_max_C, 40000)
              ELSE 0
        r2 == IF worn
              THEN (15 * Min(c.brake_wear_threshold - g.brake_pad, 4000000))
                       \div 100
              ELSE 0
        r3 == IF low
              THEN 25 * Min(c.soc_min_pct - g.battery_soc, 20000)
              ELSE 0
        rs == (IF hot THEN <<"high brake temp">> ELSE << >>)
                \o (IF worn THEN <<"low pad">> ELSE << >>)
                \o (IF low THEN <<"low SOC">> ELSE << >>)
    IN  [risk |-> Max(0, Min(1000000, r1 + r2 + r3)),
         reasons |-> IF rs = << >> THEN <<"nominal">> ELSE rs]

\* src/src/simulator.py risk_and_reason(temp_c, pad_frac): the risk returned,
\* in 1e-6, and the reasons without the values formatted into them
\*   0.6*min((temp_c - temp_max_C)/30, 1)          = 20e-6 per 0.001 C
\*   0.5*min((brake_wear_threshold - pad)/0.3, 1)  = 1e-6 per 6e-7
RiskAndReason(temp_c, pad_frac, c) ==
    LET high == temp_c > c.temp_max_C
        near == ~high /\ temp_c > c.temp_max_C - 10000
        worn == pad_frac < c.brake_wear_threshold
        r1 == IF high THEN 20 * Min(temp_c - c.temp_max_C, 30000)
              ELSE IF near THEN 300000
              ELSE 0
        r2 == IF worn
              THEN Min(c.brake_wear_threshold - pad_frac, 3000000) \div 6
              ELSE 0
        rs == (IF high THEN <<"temperature high">>
               ELSE IF near THEN <<"temperature nearing limit">>
               ELSE << >>)
                \o (IF worn THEN <<"brake pad low">> ELSE << >>)
    IN  [risk |-> Max(0, Min(1000000, r1 + r2)),
         reasons |-> IF rs = << >> THEN <<"nominal">> ELSE rs]

\* speed profile
SpeedStep(speed_kph, target, factor) ==
    Max(0, Min(SPEED_CEIL, speed_kph + ((target - speed_kph) * factor) \div 1000))

\* accel_mps2 = ((speed_kph - prev_speed_kph) / 3.6) / max(1, TICK_SEC)
AccelOf(speed_kph, prev_speed_kph, c) ==
    (((speed_kph - prev_speed_kph) * 25) \div 9) \div Max(1, c.tick_sec)

\* dist_m = (speed_kph / 3.6) * TICK_SEC
DistOf(speed_kph, c) == (speed_kph * c.tick_sec * 25) \div 9

\* battery drain: battery_soc = max(0.0, battery_soc - drain)
DrainOf(speed_kph, accel_mps2, c) ==
    5 * c.tick_sec
        + ((speed_kph \div 10) * (speed_kph \div 10) * c.tick_sec) \div 5000
        + Max(0, accel_mps2) \div 100
BatteryStep(battery_soc, drain) == Max(0, battery_soc - drain)

\* brake system: heating and pad wear in a braking zone, relaxation towards
\* AMBIENT + 5 outside, then the clamps
BrakeTempStep(brake_temp, zone, speed_kph, heat, c) ==
    LET raw == IF zone
               THEN brake_temp + (2 * speed_kph) \div 25 + heat
               ELSE brake_temp
                        - ((brake_temp - (c.ambient_C + 5000)) * 4) \div 100
    IN  Max(c.ambient_C, Min(TEMP_CEIL, raw))
BrakePadStep_Regrow(brake_pad, zone, speed_kph) ==
    IF zone THEN brake_pad + (2 * speed_kph) \div 3 ELSE brake_pad

BrakePadStep(brake_pad, zone, speed_kph) ==
    LET raw == IF zone THEN brake_pad - (2 * speed_kph) \div 3 ELSE brake_pad
    IN  Max(PAD_FLOOR, Min(ONE, raw))

\* tires
TireWearStep(tire_wear, speed_kph) == Min(ONE, tire_wear + (2 * speed_kph) \div 15)

\* failure injection: brake_temp += uniform(15,30); battery_soc -= uniform(1,2)
SimInject(g, f) ==
    IF f.mode = "injection"
    THEN [g EXCEPT !.brake_temp = g.brake_temp + f.mag[1],
                   !.battery_soc = g.battery_soc - f.mag[2]]
    ELSE g

\* the row written to latest.csv and history.csv (values after round())
SimRow(g, rr) ==
    [lap |-> g.lap,
     tick |-> g.tick,
     speed_kph |-> Round(g.speed_kph, 10),
     accel_mps2 |-> Round(g.accel_mps2, 10),
     distance_m |-> Round(g.session_distance, 100),
     battery_soc |-> Round(g.battery_soc, 10),
     brake_pad_frac |-> Round(g.brake_pad, 10000),
     brake_temp_c |-> Round(g.brake_temp, 100),
     tire_wear_frac |-> Round(g.tire_wear, 10000),
     risk |-> Round(rr.risk, 1000),
     reasons |-> rr.reasons]

\* lap rollover test
SimLapComplete(g, c) == g.lap_distance >= c.lap_length_m

SimRollover_Remainder(g, c, cool) ==
    [g EXCEPT !.lap = g.lap + 1,
              !.lap_distance = g.lap_distance - c.lap_length_m,
              !.brake_temp = Max(c.ambient_C + 5000, g.brake_temp - cool)]

\* lap rollover: lap += 1; lap_distance = 0.0; brake cooling
SimRollover(g, c, cool) ==
    [g EXCEPT !.lap = g.lap + 1,
              !.lap_distance = 0,
              !.brake_temp = Max(c.ambient_C + 5000, g.brake_temp - cool)]

\* the loop body up to the row: speed, acceleration, distances, battery,
\* brakes, tires, failure injection
SimUpdate(g, c, target, factor, heat, f) ==
    LET speed == SpeedStep(g.speed_kph, target, factor)
        accel == AccelOf(speed, g.prev_speed_kph, c)
        dist_m == DistOf(speed, c)
        lapd == g.lap_distance + dist_m
        zone == InBrakeZone(lapd, c)
    IN  SimInject(
            [g EXCEPT !.speed_kph = speed,
                      !.accel_mps2 = accel,
                      !.prev_speed_kph = speed,
                      !.lap_distance = lapd,
                      !.session_distance = g.session_distance + dist_m,
                      !.battery_soc = BatteryStep(g.battery_soc,
                                                  DrainOf(speed, accel, c)),
                      !.brake_temp = BrakeTempStep(g.brake_temp, zone, speed, heat, c),
                      !.brake_pad = BrakePadStep(g.brake_pad, zone, speed),
                      !.tire_wear = TireWearStep(g.tire_wear, speed)],
            f)

SimInit(c) ==
    [lap |-> 1, tick |-> 0, speed_kph |-> 0, prev_speed_kph |-> 0,
     accel_mps2 |-> 0, battery_soc |-> 98000, brake_pad |-> ONE,
     brake_temp |-> c.ambient_C + 10000, tire_wear |-> 0,
     lap_distance |-> 0, session_distance |-> 0]

----------------------------------------------------------------------------
(* The two programs as state machines *)

\* argparse defaults of pro_sim.py (--laps 10 --dt 0.2, failures off); held
\* by `args` while simulator.py runs
DefaultArgs == [laps |-> 10, dt |-> 200, failures |-> FALSE]

\* cfg.get(...) defaults of simulator.py; held by `cfg` while pro_sim.py runs
DefaultCfg ==
    [ambient_C |-> 30000, temp_max_C |-> 95000,
     brake_wear_threshold |-> 2000000, soc_min_pct |-> 15000,
     lap_length_m |-> 5100000, tick_sec |-> 1]

\* command lines tried: --laps 1 and 2 with and without --failures, --laps 3
\* without
ArgsSet ==
    [laps : {1, 2}, dt : DtSet, failures : BOOLEAN]
        \cup [laps : {3}, dt : DtSet, failures : {FALSE}]

\* the random streams tried for each program
RngPro == [noise : NoiseSet, u : {0}, factor : {0}, heat : {0}, cool : {0}]
RngSim ==
    { [noise |-> 0, u |-> u, factor |-> fa, heat |-> hc[1], cool |-> hc[2]] :
        u \in USet, fa \in FactorSet, hc \in HeatCoolSet }

\* df.to_csv(HIST, mode="a") / writer.writerow(...) on history.csv
AppendRow(file, row) == Append(file, row)
RewriteWith_Append(file, row) == Append(file, row)

\* df.to_csv(LATEST, mode="w") / to_csv(LATEST) : the file is rewritten
RewriteWith(file, row) == <<row>>
AppendSummary_Overwrite(file, summary) == <<summary>>
AppendSummary_Drop(file, summary) == file

\* pd.DataFrame([{...}]).to_csv(LAPF, mode="a", ...)
AppendSummary(file, summary) == Append(file, summary)

\* fields of configs/bmw_i4.json the simulator reads besides model and mqtt
RequiredFields ==
    {"ambient_C", "temp_max_C", "brake_wear_threshold", "soc_min_pct",
     "lap_length_m", "tick_sec"}

\* configs/bmw_i4.json as a readable JSON object holding the fields of c,
\* and an enabled mqtt section when asked
ConfigFile(c, mqtt) ==
    [status |-> "ok",
     present |-> RequiredFields \cup (IF mqtt THEN {"mqtt"} ELSE {}),
     val |-> c]

\* cfg.get(key, default)
Get(file, key, default) ==
    IF key \in file.present THEN file.val[key] ELSE default

\* AMBIENT = float(cfg.get("ambient_C", 30)) ... TICK_SEC = int(cfg.get("tick_sec", 1))
LoadConfig(file) ==
    [ambient_C |-> Get(file, "ambient_C", 30000),
     temp_max_C |-> Get(file, "temp_max_C", 95000),
     brake_wear_threshold |-> Get(file, "brake_wear_threshold", 2000000),
     soc_min_pct |-> Get(file, "soc_min_pct", 15000),
     lap_length_m |-> Get(file, "lap_length_m", 5100000),
     tick_sec |-> Get(file, "tick_sec", 1)]

\* MQTT_ENABLED = bool(cfg.get("mqtt", {"enabled": False}).get("enabled", False))
MqttEnabled(file) == "mqtt" \in file.present

\* pro_sim.py mqtt_client(): c.connect(host, port, 60), no handler
ProConnect(broker) ==
    IF broker = "refuses" THEN [client |-> "unset", raised |-> TRUE]
    ELSE [client |-> "connected", raised |-> FALSE]

\* simulator.py MQTT setup: try: connect ... except Exception: mqtt_client = None
SimConnect(enabled, broker) ==
    IF enabled /\ broker # "refuses" THEN [client |-> "connected", raised |-> FALSE]
    ELSE [client |-> "none", raised |-> FALSE]

\* the environment in which nothing fails: broker reachable, disk writable,
\* the configuration file complete with MQTT disabled
NominalEnv(c) == [broker |-> "up", disk |-> "ok", config |-> ConfigFile(c, FALSE)]

\* which of the two writes of an iteration raises, if any
WriteOutcomes == IF env.disk = "ok" THEN {"ok"} ELSE {"ok", "hist", "latest"}

\* what client.publish(...) does in an iteration
PublishOutcomes ==
    IF client # "connected" THEN {"off"}
    ELSE IF env.broker = "drops" THEN {"ok", "raises"}
    ELSE {"ok"}

\* pro_sim.py: history.csv is appended first, then latest.csv is rewritten;
\* a write that raises (at open) leaves its file as it was
ProWrite(w, h, l, row) ==
    [hist |-> IF w = "hist" THEN h ELSE AppendRow(h, row),
     latest |-> IF w = "ok" THEN RewriteWith(l, row) ELSE l,
     raised |-> w # "ok"]

\* simulator.py: latest.csv is rewritten first, then history.csv is appended
SimWrite(w, h, l, row) ==
    [latest |-> IF w = "latest" THEN l ELSE RewriteWith(l, row),
     hist |-> IF w = "ok" THEN AppendRow(h, row) ELSE h,
     raised |-> w # "ok"]

TryPublish_Uncaught(o) == IF o = "raises" THEN "raise" ELSE "continue"

\* try: client.publish(...) except Exception: pass
TryPublish(o) == "continue"

\* src/src/dashboard.py before any click: no flag file, no runner thread
DashIdle == [flag |-> FALSE, thr |-> << >>, stale |-> {}, again |-> {}]

\* ev.ok when the publish of the iteration did not raise
NoGhost == [next |-> << >>, row |-> << >>, rollover |-> FALSE]

\* the state fields a tick record is built from, as the scorer sees them
ProFields(p) ==
    [temp |-> p.temp, pad |-> p.pad, tire |-> p.tire, soc |-> p.soc,
     speed |-> p.speed]
SimFields(g) ==
    [temp |-> g.brake_temp, pad |-> g.brake_pad, tire |-> g.tire_wear,
     soc |-> g.battery_soc, speed |-> g.speed_kph]

Init ==
    /\ prog \in {"pro", "sim"}
    /\ pc = "loop"
    /\ IF prog = "pro"
       THEN args \in ArgsSet /\ cfg = DefaultCfg /\ rng \in RngPro
       ELSE args = DefaultArgs /\ cfg \in CfgSet /\ rng \in RngSim
    /\ pro = ProInit
    /\ sim = SimInit(cfg)
    /\ hist = << >>
    /\ latest = << >>
    /\ lapf = << >>
    /\ inj = [n |-> 0,
              last |-> IF prog = "pro" THEN ProNoFailure ELSE SimNoFailure]
    /\ ev = [kind |-> "init", rollover |-> FALSE, fail |-> "none", rolls |-> << >>,
             glitched |-> {}, d_step |-> 0,
             pub |-> "off", wr |-> "ok", ok |-> NoGhost,
             st |-> IF prog = "pro" THEN ProFields(pro) ELSE SimFields(sim),
             alt |-> [st |-> IF prog = "pro" THEN ProFields(pro)
                                             ELSE SimFields(sim),
                      risk |-> 0,
                      reasons |-> IF prog = "pro" THEN "nominal"
                                                  ELSE <<"nominal">>]]
    /\ iter = 0
    /\ env = NominalEnv(cfg)
    /\ client = IF prog = "pro" THEN "connected" ELSE "none"
    /\ dash = DashIdle

\* pro_sim.py: one iteration of `while ...:` (loop test true, whole body).
\* An exception no handler catches ends the program where it is raised.
ProTick ==
    /\ prog = "pro"
    /\ pc = "loop"
    /\ LoopCond(pro, args)
    /\ \E b \in BrakeChoices(pro.t),
          f \in (IF args.failures
                 THEN FailChoices(ProNoFailure, ProFailures)
                 ELSE {ProNoFailure}),
          w \in WriteOutcomes,
          o \in PublishOutcomes :
          LET u == ProUpdate(pro, args, rng.noise, b, f)
              un == ProUpdate(pro, args, rng.noise, b, ProNoFailure)
              row == ProRow(u.p, u.risk, u.reasons)
              files == ProWrite(w, hist, latest, row)
              complete == LapComplete(u.p)
              p2 == IF complete THEN ResetLap(u.p) ELSE u.p
              tick == [kind |-> "tick", rollover |-> complete, fail |-> f.mode,
                       rolls |-> IF complete
                                 THEN Append(ev.rolls,
                                             [t |-> u.p.t, soc |-> u.p.soc])
                                 ELSE ev.rolls,
                       glitched |-> IF f.mode = "sensor_glitch"
                                    THEN ev.glitched \cup {u.p.lap}
                                    ELSE ev.glitched,
                       d_step |-> u.d_step,
                       pub |-> o, wr |-> w,
                       ok |-> IF o = "raises"
                              THEN [next |-> NextTick(p2, args.dt),
                                    row |-> row, rollover |-> complete]
                              ELSE NoGhost,
                       st |-> ProFields(u.p),
                       alt |-> [st |-> ProFields(un.p),
                                risk |-> un.risk,
                                reasons |-> un.reasons]]
          IN  /\ hist' = files.hist
              /\ latest' = files.latest
              /\ inj' = InjAfter(f)
              /\ IF files.raised
                 THEN /\ pc' = "crashed"
                      /\ pro' = u.p
                      /\ lapf' = lapf
                      /\ iter' = iter
                      /\ ev' = [tick EXCEPT !.kind = "write_failed",
                                            !.rollover = FALSE,
                                            !.rolls = ev.rolls,
                                            !.pub = "off", !.ok = NoGhost]
                 ELSE IF TryPublish(o) = "raise"
                 THEN /\ pc' = "crashed"
                      /\ pro' = u.p
                      /\ lapf' = lapf
                      /\ iter' = iter
                      /\ ev' = [tick EXCEPT !.kind = "publish_failed",
                                            !.rollover = FALSE,
                                            !.rolls = ev.rolls]
                 ELSE /\ pc' = pc
                      /\ pro' = NextTick(p2, args.dt)
                      /\ lapf' = IF complete
                                 THEN AppendSummary(lapf, LapSummary(u.p))
                                 ELSE lapf
                      /\ iter' = iter + 1
                      /\ ev' = tick
    /\ UNCHANGED <<prog, args, cfg, sim, rng, env, client, dash>>

\* pro_sim.py: the loop test is false; print("Simulation finished.")
ProExit ==
    /\ prog = "pro"
    /\ pc = "loop"
    /\ LoopExit(pro, args)
    /\ pc' = "done"
    /\ ev' = [ev EXCEPT !.kind = "exit", !.rollover = FALSE, !.fail = "none"]
    /\ UNCHANGED <<prog, args, cfg, pro, sim, hist, latest, lapf, rng, inj,
                   iter, env, client, dash>>

\* simulator.py: one iteration of `while True:`.  An exception other than
\* KeyboardInterrupt leaves the try block and ends the program.
SimTick ==
    /\ prog = "sim"
    /\ pc = "loop"
    /\ sim.tick < MaxTick
    /\ \E f \in FailChoices(SimNoFailure, SimFailures),
          w \in WriteOutcomes,
          o \in PublishOutcomes :
          LET target == TargetOf(InBrakeZone(sim.lap_distance, cfg), rng.u)
              g1 == SimUpdate(sim, cfg, target, rng.factor, rng.heat, f)
              gn == SimUpdate(sim, cfg, target, rng.factor, rng.heat,
                              SimNoFailure)
              rn == RiskAndReasons(gn, cfg)
              row == SimRow(g1, RiskAndReasons(g1, cfg))
              files == SimWrite(w, hist, latest, row)
              g2 == [g1 EXCEPT !.tick = g1.tick + 1]
              complete == SimLapComplete(g2, cfg)
              g3 == IF complete THEN SimRollover(g2, cfg, rng.cool) ELSE g2
              tick == [kind |-> "tick", rollover |-> complete,
                       fail |-> f.mode, rolls |-> ev.rolls,
                       glitched |-> ev.glitched,
                       d_step |-> DistOf(g1.speed_kph, cfg),
                       pub |-> o, wr |-> w,
                       ok |-> IF o = "raises"
                              THEN [next |-> g3, row |-> row,
                                    rollover |-> complete]
                              ELSE NoGhost,
                       st |-> SimFields(g1),
                       alt |-> [st |-> SimFields(gn),
                                risk |-> Round(rn.risk, 1000),
                                reasons |-> rn.reasons]]
          IN  /\ latest' = files.latest
              /\ hist' = files.hist
              /\ inj' = InjAfter(f)
              /\ IF files.raised
                 THEN /\ pc' = "crashed"
                      /\ sim' = g1
                      /\ iter' = iter
                      /\ ev' = [tick EXCEPT !.kind = "write_failed",
                                            !.rollover = FALSE,
                                            !.pub = "off", !.ok = NoGhost]
                 ELSE IF TryPublish(o) = "raise"
                 THEN /\ pc' = "crashed"
                      /\ sim' = g1
                      /\ iter' = iter
                      /\ ev' = [tick EXCEPT !.kind = "publish_failed",
                                            !.rollover = FALSE]
                 ELSE /\ pc' = pc
                      /\ sim' = g3
                      /\ iter' = iter + 1
                      /\ ev' = tick
    /\ UNCHANGED <<prog, args, cfg, pro, lapf, rng, env, client, dash>>

Next == ProTick \/ ProExit \/ SimTick

Spec == Init /\ [][Next]_vars

\* The loop test passes: the body runs.  The steps of Next that satisfy
\* <<Iterate>>_iter are exactly the ProTick and SimTick steps.
Iterate ==
    /\ pc = "loop"
    /\ IF prog = "pro" THEN LoopCond(pro, args) ELSE sim.tick < MaxTick
    /\ iter' = iter + 1

\* Both loops are single-threaded and run their next iteration (or leave the
\* loop) whenever they can.  A KeyboardInterrupt, which ends simulator.py
\* from outside, is not modelled: runs are uninterrupted.
FairSpec == Spec /\ WF_iter(Iterate) /\ WF_vars(ProExit)

----------------------------------------------------------------------------
(* Startup and the loops in an environment that can fail: the broker may   *)
(* refuse the connection or drop a publish, a write under data/ may raise,  *)
(* configs/bmw_i4.json may be missing, malformed or incomplete.            *)

\* the configuration written in the file when it is readable: a 100 m lap
\* with a 1 s tick
FileCfg ==
    [ambient_C |-> 25000, temp_max_C |-> 95000,
     brake_wear_threshold |-> 2000000, soc_min_pct |-> 15000,
     lap_length_m |-> 100000, tick_sec |-> 1]

\* contents of configs/bmw_i4.json tried: absent, not JSON, complete with
\* and without an enabled mqtt section, and lacking one required field
ConfigFiles ==
    { [status |-> st, present |-> {}, val |-> FileCfg] :
        st \in {"missing", "malformed"} }
    \cup { ConfigFile(FileCfg, m) : m \in BOOLEAN }
    \cup { [status |-> "ok",
            present |-> (RequiredFields \ {k}) \cup {"mqtt"},
            val |-> FileCfg] : k \in RequiredFields }

BrokerSet == {"up", "refuses", "drops"}
DiskSet == {"ok", "fails"}

\* The runs start before startup.  Their random streams fire no failure
\* injection (inj holds an exhausted budget whose last draw is "none").
EnvInit ==
    /\ prog \in {"pro", "sim"}
    /\ pc = "start"
    /\ args = IF prog = "pro" THEN [laps |-> 1, dt |-> 20000, failures |-> FALSE]
                              ELSE DefaultArgs
    /\ cfg = DefaultCfg
    /\ rng = IF prog = "pro"
             THEN [noise |-> 50, u |-> 0, factor |-> 0, heat |-> 0, cool |-> 0]
             ELSE [noise |-> 0, u |-> 1000, factor |-> 150, heat |-> 1500,
                   cool |-> 10000]
    /\ pro = ProInit
    /\ sim = SimInit(cfg)
    /\ hist = << >>
    /\ latest = << >>
    /\ lapf = << >>
    /\ inj = [n |-> MaxFail + 1,
              last |-> IF prog = "pro" THEN ProNoFailure ELSE SimNoFailure]
    /\ ev = [kind |-> "init", rollover |-> FALSE, fail |-> "none", rolls |-> << >>,
             glitched |-> {}, d_step |-> 0,
             pub |-> "off", wr |-> "ok", ok |-> NoGhost,
             st |-> IF prog = "pro" THEN ProFields(pro) ELSE SimFields(sim),
             alt |-> [st |-> IF prog = "pro" THEN ProFields(pro)
                                             ELSE SimFields(sim),
                      risk |-> 0,
                      reasons |-> IF prog = "pro" THEN "nominal"
                                                  ELSE <<"nominal">>]]
    /\ iter = 0
    /\ env \in [broker : BrokerSet, disk : DiskSet,
                 config : IF prog = "pro" THEN {ConfigFile(DefaultCfg, FALSE)}
                                          ELSE ConfigFiles]
    /\ client = "unset"
    /\ dash = DashIdle

\* pro_sim.py main() up to the loop: argparse, ensure_csv, mqtt_client(...)
ProStart ==
    /\ prog = "pro"
    /\ pc = "start"
    /\ LET c == ProConnect(env.broker)
       IN  /\ client' = c.client
           /\ pc' = IF c.raised THEN "crashed" ELSE "loop"
           /\ ev' = [ev EXCEPT !.kind = IF env.broker = "refuses"
                                        THEN "connect_failed" ELSE "start"]
    /\ UNCHANGED <<prog, args, cfg, pro, sim, hist, latest, lapf, rng, inj,
                   iter, env, dash>>

\* simulator.py up to the loop: json.load of the configuration, cfg.get of
\* each field, the vehicle state, the MQTT setup
SimStart ==
    /\ prog = "sim"
    /\ pc = "start"
    /\ IF env.config.status # "ok"
       THEN /\ pc' = "crashed"
            /\ ev' = [ev EXCEPT !.kind = "config_failed"]
            /\ UNCHANGED <<cfg, sim, client>>
       ELSE LET c == LoadConfig(env.config)
                m == SimConnect(MqttEnabled(env.config), env.broker)
            IN  /\ cfg' = c
                /\ sim' = SimInit(c)
                /\ client' = m.client
                /\ pc' = IF m.raised THEN "crashed" ELSE "loop"
                /\ ev' = [ev EXCEPT
                            !.kind = IF MqttEnabled(env.config)
                                          /\ env.broker = "refuses"
                                     THEN "connect_failed" ELSE "start",
                            !.st = SimFields(SimInit(c)),
                            !.alt.st = SimFields(SimInit(c))]
    /\ UNCHANGED <<prog, args, pro, hist, latest, lapf, rng, inj, iter, env,
                   dash>>

EnvNext == ProStart \/ SimStart \/ ProTick \/ ProExit \/ SimTick

EnvSpec == EnvInit /\ [][EnvNext]_vars

----------------------------------------------------------------------------
(* src/src/dashboard.py: the auto-inference controls.  Each click re-runs   *)
(* the script, whose button branch runs to its end; runner threads are      *)
(* daemon threads of the server process and interleave with the clicks.     *)
(* A runner is at "check" (the while test), "run" (subprocess.run),         *)
(* "sleep" (time.sleep) or "done" (returned).                               *)

DashInit ==
    /\ prog = "dash"
    /\ pc = "loop"
    /\ args = DefaultArgs
    /\ cfg = DefaultCfg
    /\ rng = [noise |-> 0, u |-> 0, factor |-> 0, heat |-> 0, cool |-> 0]
    /\ pro = ProInit
    /\ sim = SimInit(cfg)
    /\ hist = << >>
    /\ latest = << >>
    /\ lapf = << >>
    /\ inj = [n |-> 0, last |-> ProNoFailure]
    /\ ev = [kind |-> "init", rollover |-> FALSE, fail |-> "none", rolls |-> << >>,
             glitched |-> {}, d_step |-> 0,
             pub |-> "off", wr |-> "ok", ok |-> NoGhost,
             st |-> SimFields(sim),
             alt |-> [st |-> SimFields(sim), risk |-> 0,
                      reasons |-> <<"nominal">>]]
    /\ iter = 0
    /\ env = NominalEnv(cfg)
    /\ client = "none"
    /\ dash \in {[DashIdle EXCEPT !.flag = fl] : fl \in BOOLEAN}

\* runner threads that have not returned
Alive == {i \in 1..Len(dash.thr) : dash.thr[i] # "done"}

\* "Start auto-inference (30s)": open(AUTO_FLAG, "w").close();
\* start_auto_infer(): threading.Thread(target=runner, daemon=True).start()
ClickStart ==
    /\ prog = "dash"
    /\ Len(dash.thr) < MaxThreads
    /\ dash' = [dash EXCEPT !.flag = TRUE, !.thr = Append(@, "check")]
    /\ UNCHANGED <<prog, pc, args, cfg, pro, sim, hist, latest, lapf, rng, inj,
                   ev, iter, env, client>>

\* "Stop auto-inference": if os.path.exists(AUTO_FLAG): os.remove(AUTO_FLAG)
ClickStop ==
    /\ prog = "dash"
    /\ dash' = [dash EXCEPT !.flag = FALSE, !.stale = @ \cup Alive]
    /\ UNCHANGED <<prog, pc, args, cfg, pro, sim, hist, latest, lapf, rng, inj,
                   ev, iter, env, client>>

\* runner(): while os.path.exists(AUTO_FLAG)
RunnerCheck ==
    \E i \in 1..Len(dash.thr) :
        /\ prog = "dash"
        /\ dash.thr[i] = "check"
        /\ dash' = [dash EXCEPT
                      !.thr[i] = IF dash.flag THEN "run" ELSE "done",
                      !.again = IF dash.flag /\ i \in dash.stale
                                THEN @ \cup {i} ELSE @]
        /\ UNCHANGED <<prog, pc, args, cfg, pro, sim, hist, latest, lapf, rng, inj,
                       ev, iter, env, client>>

\* runner(): subprocess.run(["python", "scripts/predict_latest.py"]) returns
RunnerRun ==
    \E i \in 1..Len(dash.thr) :
        /\ prog = "dash"
        /\ dash.thr[i] = "run"
        /\ dash' = [dash EXCEPT !.thr[i] = "sleep"]
        /\ UNCHANGED <<prog, pc, args, cfg, pro, sim, hist, latest, lapf, rng, inj,
                       ev, iter, env, client>>

\* runner(): time.sleep(interval_sec) returns
RunnerWake ==
    \E i \in 1..Len(dash.thr) :
        /\ prog = "dash"
        /\ dash.thr[i] = "sleep"
        /\ dash' = [dash EXCEPT !.thr[i] = "check"]
        /\ UNCHANGED <<prog, pc, args, cfg, pro, sim, hist, latest, lapf, rng, inj,
                       ev, iter, env, client>>

DashNext ==
    \/ ClickStart
    \/ ClickStop
    \/ RunnerCheck
    \/ RunnerRun
    \/ RunnerWake

DashSpec == DashInit /\ [][DashNext]_vars

----------------------------------------------------------------------------
(* The risk scorers as functions: each one applied to a tick state drawn   *)
(* from a set of inputs.  `sim` and `pro` hold the tick state, `hist` the   *)
(* results, one per scorer.                                                 *)

\* brake temperatures (0.001 C), pad fractions (1e-7) and SOCs (0.001 %)
\* scored: below, at and above the thresholds of the configuration
ScoreTemps == {60000, 90000, 95000, 95020, 100000, 140000}
ScorePads == {1500000, 2000000, 8000000}
ScoreSocs == {5000, 15000, 80000}

ScoreInit ==
    /\ prog = "score"
    /\ pc = "loop"
    /\ args = DefaultArgs
    /\ cfg \in CfgSet
    /\ \E tc \in ScoreTemps, pf \in ScorePads, so \in ScoreSocs :
          /\ sim = [SimInit(cfg) EXCEPT !.brake_temp = tc, !.brake_pad = pf,
                                        !.battery_soc = so]
          /\ pro = [ProInit EXCEPT !.temp = tc, !.pad = pf, !.soc = so,
                                   !.lap_temp_max = Max(@, tc)]
    /\ hist = << >>
    /\ latest = << >>
    /\ lapf = << >>
    /\ rng \in {r \in RngSim : r.u = 0 /\ r.factor = 50 /\ r.heat = 500}
    /\ inj = [n |-> 0, last |-> ProNoFailure]
    /\ ev = [kind |-> "init", rollover |-> FALSE, fail |-> "none",
             rolls |-> << >>, glitched |-> {}, d_step |-> 0,
             pub |-> "off", wr |-> "ok", ok |-> NoGhost,
             st |-> SimFields(sim),
             alt |-> [st |-> SimFields(sim), risk |-> 0,
                      reasons |-> <<"nominal">>]]
    /\ iter = 0
    /\ env = NominalEnv(cfg)
    /\ client = "none"
    /\ dash = DashIdle

Scored(name) == \E k \in 1..Len(hist) : hist[k].scorer = name

\* the result of one scorer: the tick state it saw, what it returned
Result(name, st, fail, risk, reasons) ==
    [scorer |-> name, st |-> st, fail |-> fail, risk |-> risk,
     reasons |-> reasons]

\* src/sim/simulator.py: risk, reasons = risk_and_reasons()
ScoreSim ==
    /\ prog = "score"
    /\ ~Scored("sim")
    /\ LET rr == RiskAndReasons(sim, cfg)
       IN  hist' = Append(hist, Result("sim", SimFields(sim), "none",
                                       rr.risk, rr.reasons))
    /\ UNCHANGED <<prog, pc, args, cfg, pro, sim, latest, lapf, rng, inj, ev,
                   iter, env, client, dash>>

\* src/src/simulator.py: risk, reasons = risk_and_reason(temperature, pad)
ScoreSrc ==
    /\ prog = "score"
    /\ ~Scored("src")
    /\ LET rr == RiskAndReason(sim.brake_temp, sim.brake_pad, cfg)
       IN  hist' = Append(hist, Result("src", SimFields(sim), "none",
                                       rr.risk, rr.reasons))
    /\ UNCHANGED <<prog, pc, args, cfg, pro, sim, latest, lapf, rng, inj, ev,
                   iter, env, client, dash>>

\* src/sim/pro_sim.py: the random-failure block and the risk heuristic
ScorePro ==
    /\ prog = "score"
    /\ ~Scored("pro")
    /\ \E f \in {ProNoFailure} \cup ProFailures :
          LET j == ProInject([temp |-> pro.temp, soc |-> pro.soc,
                              speed |-> pro.speed], f)
              p == [pro EXCEPT !.temp = j.temp, !.soc = j.soc,
                               !.speed = j.speed]
          IN  hist' = Append(hist,
                             Result("pro", ProFields(p), f.mode,
                                    1000 * ProRisk(j.risk, j.temp, pro.pad,
                                                   pro.tire),
                                    <<j.reasons>>))
    /\ UNCHANGED <<prog, pc, args, cfg, pro, sim, latest, lapf, rng, inj, ev,
                   iter, env, client, dash>>

ScoreNext == ScoreSim \/ ScoreSrc \/ ScorePro

ScorerSpec == ScoreInit /\ [][ScoreNext]_vars

----------------------------------------------------------------------------
(* Observations used by the properties *)

\* lap number and distance travelled in the current lap, for either program
LapNo == IF prog = "pro" THEN pro.lap ELSE sim.lap
InLap == IF prog = "pro" THEN pro.dist - pro.lap_dist_start ELSE sim.lap_distance
Total == IF prog = "pro" THEN pro.dist ELSE sim.session_distance
LapLength == IF prog = "pro" THEN LAP_M ELSE cfg.lap_length_m
Soc == IF prog = "pro" THEN pro.soc ELSE sim.battery_soc
LastRow == hist[Len(hist)]

\* simulated time / SOC at the rollover before rollover k (session start for 1)
RollT(k) == IF k = 1 THEN 0 ELSE ev.rolls[k - 1].t
RollSoc(k) == IF k = 1 THEN ProInit.soc ELSE ev.rolls[k - 1].soc

SumLapTime == SeqSum([k \in 1..Len(lapf) |-> lapf[k].lap_time_sec])
SumSocDrop == SeqSum([k \in 1..Len(lapf) |-> lapf[k].soc_drop])

----------------------------------------------------------------------------
(* C1 - pro_sim.py: the lap summaries written carry the lap numbers 1, 2,   *)
(* 3, ... in the order written (the k-th row has lap k), and a row once     *)
(* written is never changed or removed by a later iteration.                *)
C1_LapSummariesInOrder ==
    /\ [](prog = "pro" => \A k \in 1..Len(lapf) : lapf[k].lap = k)
    /\ [][prog = "pro" =>
            /\ Len(lapf') >= Len(lapf)
            /\ \A k \in 1..Len(lapf) : lapf'[k] = lapf[k]]_vars

C1_Witness == prog = "pro" /\ Len(lapf) = 3 /\ lapf[3].lap = 3

(* C2 - both loops: the first tick record carries lap 1; the lap number     *)
(* never decreases and changes only by +1, and only in an iteration in      *)
(* which the distance travelled in the current lap has reached the lap      *)
(* length.                                                                  *)
C2_LapNumberSteps ==
    /\ [](LapNo >= 1 /\ (hist # << >> => hist[1].lap = 1))
    /\ [][\/ LapNo' = LapNo
          \/ /\ LapNo' = LapNo + 1
             /\ InLap + (Total' - Total) >= LapLength]_vars

C2_Witness == prog = "sim" /\ ev.rollover /\ sim.lap = 3

C4_Original ==
    prog = "pro" =>
        /\ \A k \in 1..Len(lapf) :
               lapf[k].lap_time_sec * 10 = ev.rolls[k].t - RollT(k)
        /\ lapf # << >> => SumLapTime * 10 = ev.rolls[Len(lapf)].t

(* C4 (amended) - pro_sim.py: the lap_time_sec of the summary of lap k is   *)
(* the time between rollovers k-1 and k rounded to 2 decimals (exact when   *)
(* --dt is a multiple of 0.01 s); the lap times written sum to the time of  *)
(* the last rollover within 0.005 s per summary; the running lap starts at  *)
(* the time of the last rollover.                                           *)
C4_LapTimeRounded ==
    prog = "pro" =>
        /\ Len(ev.rolls) = Len(lapf)
        /\ pro.lap_start_t = RollT(Len(lapf) + 1)
        /\ \A k \in 1..Len(lapf) :
               /\ lapf[k].lap_time_sec = Round(ev.rolls[k].t - RollT(k), 10)
               /\ args.dt % 10 = 0 =>
                     lapf[k].lap_time_sec * 10 = ev.rolls[k].t - RollT(k)
        /\ lapf # << >> =>
               /\ Abs(SumLapTime * 10 - ev.rolls[Len(lapf)].t) <= 5 * Len(lapf)
               /\ args.dt % 10 = 0 =>
                     SumLapTime * 10 = ev.rolls[Len(lapf)].t

C4_Witness ==
    /\ prog = "pro"
    /\ Len(lapf) >= 2
    /\ args.dt % 10 # 0
    /\ lapf[2].lap_time_sec * 10 # ev.rolls[2].t - ev.rolls[1].t

(* C5 (as claimed) - pro_sim.py: the soc_drop of each summary equals the    *)
(* SOC at the start of the lap minus the SOC of the rollover tick, and the  *)
(* soc_drop values written sum to the initial SOC minus the SOC at the      *)
(* last rollover.                                                           *)
C5_Original ==
    prog = "pro" =>
        /\ \A k \in 1..Len(lapf) :
               lapf[k].soc_drop * 10 = RollSoc(k) - ev.rolls[k].soc
        /\ lapf # << >> =>
               SumSocDrop * 10 = ProInit.soc - ev.rolls[Len(lapf)].soc

(* C5 (amended) - pro_sim.py: the soc_drop of the summary of lap k is the   *)
(* SOC at the end of lap k-1 (100 for k = 1) minus the SOC of rollover tick *)
(* k, rounded to 2 decimals; it is never negative; the values written sum   *)
(* to the initial SOC minus the SOC at the last rollover within 0.005 per   *)
(* summary; the running lap starts from the SOC of the last rollover.       *)
C5_SocDropRounded ==
    prog = "pro" =>
        /\ pro.lap_soc_start = RollSoc(Len(lapf) + 1)
        /\ \A k \in 1..Len(lapf) :
               /\ RollSoc(k) >= ev.rolls[k].soc
               /\ lapf[k].soc_drop = Round(RollSoc(k) - ev.rolls[k].soc, 10)
        /\ lapf # << >> =>
               Abs(SumSocDrop * 10 - (ProInit.soc - ev.rolls[Len(lapf)].soc))
                   <= 5 * Len(lapf)

C5_Witness ==
    /\ prog = "pro"
    /\ Len(lapf) >= 2
    /\ lapf[2].soc_drop * 10 # ev.rolls[1].soc - ev.rolls[2].soc
    /\ SumSocDrop * 10 # ProInit.soc - ev.rolls[Len(lapf)].soc

(* C6 - both loops: the distance travelled in the current lap is never      *)
(* negative, does not decrease from one iteration to the next while the lap *)
(* number stays the same, and is exactly 0 after an iteration that          *)
(* increments the lap number (the distance beyond the lap length is         *)
(* dropped, in pro_sim.py and in simulator.py alike).                       *)
C6_DistanceInLap ==
    /\ [](InLap >= 0)
    /\ [][/\ LapNo' = LapNo => InLap' >= InLap
          /\ LapNo' # LapNo => InLap' = 0]_vars

C6_Witness ==
    /\ prog = "sim"
    /\ ev.rollover
    /\ sim.lap_distance = 0
    /\ sim.session_distance > (sim.lap - 1) * cfg.lap_length_m

C9_SocInRange ==
    \A k \in 1..Len(hist) :
        hist[k].battery_soc >= 0 /\ hist[k].battery_soc <= 10000

(* C10 - either loop: every tick record written has brake_temp_c at least   *)
(* the ambient temperature (simulator.py: AMBIENT of the configuration;     *)
(* pro_sim.py: the 20 C floor of its cooling step) and, in simulator.py, at *)
(* most 160 C, also in iterations with an injected failure or a rollover.   *)
C10_BrakeTempInRange ==
    \A k \in 1..Len(hist) :
        IF prog = "sim"
        THEN /\ hist[k].brake_temp_c * 100 >= cfg.ambient_C
             /\ hist[k].brake_temp_c * 100 <= TEMP_CEIL
        ELSE hist[k].brake_temp_c * 10 >= TEMP_FLOOR

(* C11 - either loop: every tick record written has speed_kph within        *)
(* [0, max_speed] (240 km/h in pro_sim.py, 280 km/h in simulator.py), also  *)
(* in iterations where a sensor glitch changes the speed.                   *)
C11_SpeedInRange ==
    \A k \in 1..Len(hist) :
        /\ hist[k].speed_kph >= 0
        /\ IF prog = "pro"
           THEN hist[k].speed_kph <= MAX_SPEED
           ELSE hist[k].speed_kph * 10 <= SPEED_CEIL

(* C12 - either loop: every tick record written has brake_pad_frac within   *)
(* [floor, 1.0], the floor being the lower clamp of the loop (0.05 in       *)
(* simulator.py, 0.0 in pro_sim.py), and no record has a greater            *)
(* brake_pad_frac than the record written before it.                        *)
C12_PadBoundedNonIncreasing ==
    \A k \in 1..Len(hist) :
        /\ IF prog = "sim"
           THEN /\ hist[k].brake_pad_frac * 10000 >= PAD_FLOOR
                /\ hist[k].brake_pad_frac * 10000 <= ONE
           ELSE /\ hist[k].brake_pad_frac >= 0
                /\ hist[k].brake_pad_frac * 1000 <= ProInit.pad
        /\ k > 1 => hist[k].brake_pad_frac <= hist[k - 1].brake_pad_frac

C12_Witness ==
    /\ prog = "sim"
    /\ Len(hist) >= 2
    /\ LastRow.brake_pad_frac < hist[1].brake_pad_frac

C14_RiskInRange ==
    \A k \in 1..Len(hist) : hist[k].risk >= 0 /\ hist[k].risk <= 1000

C14_Witness ==
    /\ prog = "pro"
    /\ ev.fail = "brake_overheat"
    /\ LastRow.risk = 1000
    /\ LastRow.brake_temp_c > 30000

(* C15 - either loop: no tick record has a greater battery_soc than the     *)
(* record written before it, also when the record before it was written in  *)
(* an iteration with an injected failure.                                   *)
C15_SocNonIncreasing ==
    \A k \in 2..Len(hist) : hist[k].battery_soc <= hist[k - 1].battery_soc

(* C16 - either loop: no tick record has a smaller distance_m than the      *)
(* record written before it, the tick index (and the simulated time of      *)
(* pro_sim.py) grows with every iteration, and a lap rollover leaves the    *)
(* cumulative distance as it is: it always covers the laps completed.       *)
C16_DistanceAndTimeMonotonic ==
    /\ [](\A k \in 2..Len(hist) : hist[k].distance_m >= hist[k - 1].distance_m)
    /\ [](prog = "sim" =>
            \A k \in 2..Len(hist) : hist[k].tick > hist[k - 1].tick)
    /\ [](Total >= (LapNo - 1) * LapLength)
    /\ [][/\ Total' >= Total
          /\ pro'.t >= pro.t /\ pro'.tick >= pro.tick
          /\ sim'.tick >= sim.tick
          /\ hist' # hist =>
                (IF prog = "pro"
                 THEN pro'.t > pro.t /\ pro'.tick = pro.tick + 1
                 ELSE sim'.tick = sim.tick + 1)]_vars

C16_Witness ==
    /\ prog = "pro"
    /\ pro.lap >= 2
    /\ ev.kind = "tick"
    /\ ~ev.rollover
    /\ LastRow.distance_m * 10 > LAP_M
    /\ LastRow.distance_m > hist[Len(hist) - 1].distance_m

(* C17 (as claimed) - either loop: the risk and reasons of a tick record    *)
(* depend only on the state fields of the record and the configuration: an  *)
(* iteration that ends with the same state fields with and without a        *)
(* failure draw writes the same risk and reasons.                           *)
C17_Original ==
    ev.kind = "tick" /\ ev.st = ev.alt.st =>
        LastRow.risk = ev.alt.risk /\ LastRow.reasons = ev.alt.reasons

(* C17 (amended) - simulator.py: the risk and reasons of a tick record are  *)
(* risk_and_reasons applied to the brake temperature, pad fraction and SOC  *)
(* the record is built from and the configuration, whatever was drawn.      *)
(* pro_sim.py: the risk is the greater of the risk of the failure injected  *)
(* in the iteration (0.9, 0.7, 0.5, or 0 without one) and the heuristic of  *)
(* temp, pad and tire; reasons names the failure injected, or is "nominal". *)
C17_RiskFunctionOf ==
    ev.kind = "tick" =>
        IF prog = "sim"
        THEN LET rr == RiskAndReasons([brake_temp |-> ev.st.temp,
                                       brake_pad |-> ev.st.pad,
                                       battery_soc |-> ev.st.soc], cfg)
             IN  /\ LastRow.risk = Round(rr.risk, 1000)
                 /\ LastRow.reasons = rr.reasons
        ELSE LET fr == CASE ev.fail = "brake_overheat" -> 900
                         [] ev.fail = "battery_spike" -> 700
                         [] ev.fail = "sensor_glitch" -> 500
                         [] OTHER -> 0
                 h == Min(1000, ev.st.temp \div 300
                                    + (ProInit.pad - ev.st.pad) \div 20000
                                    + (ProInit.tire - ev.st.tire) \div 40000)
             IN  /\ LastRow.risk = Max(fr, h)
                 /\ LastRow.reasons =
                        CASE ev.fail = "brake_overheat" ->
                                 "random_failure: brake_overheat"
                          [] ev.fail = "battery_spike" ->
                                 "random_failure: battery_spike"
                          [] ev.fail = "sensor_glitch" ->
                                 "random_failure: sensor_glitch"
                          [] OTHER -> "nominal"

C17_Witness ==
    /\ prog = "pro"
    /\ ev.kind = "tick"
    /\ ev.fail = "sensor_glitch"
    /\ ev.st = ev.alt.st
    /\ LastRow.risk = 500
    /\ ev.alt.risk < 500

\* the conditions of the scorer on a scored tick state: over-temperature,
\* low pad fraction, low SOC
Hot(r) == r.st.temp > cfg.temp_max_C
Worn(r) == r.st.pad < cfg.brake_wear_threshold
Low(r) == r.st.soc < cfg.soc_min_pct
\* what a reason is about
KindOf(reason) ==
    CASE reason \in {"high brake temp", "temperature high",
                     "temperature nearing limit"} -> "temperature"
      [] reason \in {"low pad", "brake pad low"} -> "pad"
      [] reason = "low SOC" -> "SOC"
      [] reason = "nominal" -> "nominal"
      [] OTHER -> "failure"
Kinds(reasons) == [i \in 1..Len(reasons) |-> KindOf(reasons[i])]
TriggeredKinds(r) ==
    (IF Hot(r) THEN <<"temperature">> ELSE << >>)
        \o (IF Worn(r) THEN <<"pad">> ELSE << >>)
        \o (IF Low(r) THEN <<"SOC">> ELSE << >>)

(* C18 (as claimed) - every risk scorer: reasons is the single entry        *)
(* "nominal" iff none of over-temperature, low pad and low SOC holds;       *)
(* otherwise it has one entry per condition that holds, in the order        *)
(* temperature, pad, SOC.                                                   *)
C18_Original ==
    \A k \in 1..Len(hist) :
        LET r == hist[k]
        IN  /\ (r.reasons = <<"nominal">>) <=> (TriggeredKinds(r) = << >>)
            /\ TriggeredKinds(r) # << >> => Kinds(r.reasons) = TriggeredKinds(r)

(* C18 (amended) - risk_and_reasons of src/sim/simulator.py behaves as      *)
(* claimed.  risk_and_reason of src/src/simulator.py has no SOC condition   *)
(* and a second temperature condition (within 10 C below the limit): its    *)
(* reasons is "nominal" iff the temperature is at most 10 C below the limit *)
(* and the pad is not low, otherwise one temperature entry (if any) and     *)
(* then one pad entry (if any).  pro_sim.py derives no reason from a        *)
(* condition: reasons is "nominal" iff no failure was injected, otherwise   *)
(* the single entry naming the failure.                                     *)
C18_ReasonsPerCondition ==
    \A k \in 1..Len(hist) :
        LET r == hist[k]
            near == ~Hot(r) /\ r.st.temp > cfg.temp_max_C - 10000
        IN  CASE r.scorer = "sim" ->
                   /\ (r.reasons = <<"nominal">>) <=> (TriggeredKinds(r) = << >>)
                   /\ TriggeredKinds(r) # << >> =>
                          /\ Kinds(r.reasons) = TriggeredKinds(r)
                          /\ Len(r.reasons) = Len(TriggeredKinds(r))
              [] r.scorer = "src" ->
                   /\ (r.reasons = <<"nominal">>)
                          <=> ~(Hot(r) \/ near \/ Worn(r))
                   /\ (Hot(r) \/ near \/ Worn(r)) =>
                          r.reasons =
                              (IF Hot(r) THEN <<"temperature high">>
                               ELSE IF near
                                    THEN <<"temperature nearing limit">>
                                    ELSE << >>)
                              \o (IF Worn(r) THEN <<"brake pad low">>
                                             ELSE << >>)
              [] r.scorer = "pro" ->
                   /\ (r.reasons = <<"nominal">>) <=> (r.fail = "none")
                   /\ Len(r.reasons) = 1
                   /\ r.fail # "none" => KindOf(r.reasons[1]) = "failure"

C18_Witness ==
    /\ prog = "score"
    /\ \E k \in 1..Len(hist) :
          /\ hist[k].scorer = "sim"
          /\ hist[k].reasons = <<"high brake temp", "low pad", "low SOC">>
    /\ \E k \in 1..Len(hist) :
          /\ hist[k].scorer = "src"
          /\ hist[k].reasons = <<"temperature high", "brake pad low">>

(* C19 (as claimed) - scorers of src/sim/simulator.py and pro_sim.py: when  *)
(* the brake temperature exceeds temp_max_C the risk is greater than 0 and  *)
(* reasons has a temperature entry; the risk is 0 exactly when reasons is   *)
(* "nominal".                                                               *)
C19_Original ==
    \A k \in 1..Len(hist) :
        LET r == hist[k]
        IN  r.scorer \in {"sim", "pro"} =>
              /\ Hot(r) =>
                    /\ r.risk > 0
                    /\ \E i \in 1..Len(r.reasons) :
                          KindOf(r.reasons[i]) = "temperature"
              /\ (r.risk = 0) <=> (r.reasons = <<"nominal">>)

(* C19 (amended) - risk_and_reasons of src/sim/simulator.py: when the brake *)
(* temperature exceeds temp_max_C the risk returned is greater than 0 and   *)
(* the first reason is the temperature one, and the risk returned is 0      *)
(* exactly when reasons is "nominal"; the risk written, rounded to 3        *)
(* decimals, is greater than 0 once the excess is at least 0.034 C.         *)
(* pro_sim.py: the risk is always greater than 0, also when reasons is      *)
(* "nominal", and no temperature makes reasons other than "nominal" unless  *)
(* a failure is injected.                                                   *)
C19_TempRisk ==
    \A k \in 1..Len(hist) :
        LET r == hist[k]
        IN  CASE r.scorer = "sim" ->
                   /\ Hot(r) =>
                         /\ r.risk > 0
                         /\ r.reasons[1] = "high brake temp"
                         /\ r.st.temp - cfg.temp_max_C >= 34 =>
                               Round(r.risk, 1000) > 0
                   /\ (r.risk = 0) <=> (r.reasons = <<"nominal">>)
              [] r.scorer = "pro" ->
                   /\ r.risk > 0
                   /\ r.fail = "none" => r.reasons = <<"nominal">>
              [] OTHER -> TRUE

C19_Witness ==
    /\ prog = "score"
    /\ cfg.temp_max_C = 95000
    /\ \E k \in 1..Len(hist) :
          /\ hist[k].scorer = "sim"
          /\ hist[k].st.temp = 100000
          /\ hist[k].risk = 75000
          /\ hist[k].reasons = <<"high brake temp">>

\* the tick records that carry lap number k, in the order written
RowsOfLap(k) == LET InLapK(r) == r.lap = k IN SelectSeq(hist, InLapK)
SpeedsOfLap(k) ==
    LET rows == RowsOfLap(k) IN [i \in 1..Len(rows) |-> rows[i].speed_kph]
TempsOfLap(k) ==
    LET rows == RowsOfLap(k) IN [i \in 1..Len(rows) |-> rows[i].brake_temp_c]
\* the temperature a lap's maximum starts from: the one recorded by the tick
\* that ended the lap before it (the initial temperature for lap 1)
BaselineTemp(k) ==
    IF k = 1 THEN Round(ProInit.temp, 10)
    ELSE LET rows == RowsOfLap(k - 1) IN rows[Len(rows)].brake_temp_c

----------------------------------------------------------------------------
(* C21 - either loop: on a tick with a failure injection exactly one of the *)
(* three modes is applied and only that mode's field (temperature for the   *)
(* thermal spike, SOC for the battery spike, speed for the sensor glitch)   *)
(* differs from the value the same tick gives without the injection.        *)
PerturbedFields ==
    {fld \in {"temp", "soc", "speed", "pad", "tire"} :
        ev.st[fld] # ev.alt.st[fld]}

C21_OnlyModeFieldPerturbed ==
    (ev.kind = "tick" /\ ev.fail # "none") =>
        \/ ev.fail = "brake_overheat" /\ PerturbedFields \subseteq {"temp"}
        \/ ev.fail = "battery_spike" /\ PerturbedFields \subseteq {"soc"}
        \/ ev.fail = "sensor_glitch" /\ PerturbedFields \subseteq {"speed"}

(* C22 - pro_sim.py: after a sensor glitch on a tick, the speed the next    *)
(* tick's kinematics starts from is the speed the tick would have left      *)
(* without the glitch.                                                      *)
C22_GlitchLeavesPhysics ==
    (prog = "pro" /\ ev.kind = "tick" /\ ev.fail = "sensor_glitch") =>
        pro.speed = ev.alt.st.speed

----------------------------------------------------------------------------
\* speed (0.01 km/h) times the tick duration of the running loop, in mm:
\* pro_sim.py's args.dt is in ms here, simulator.py's TICK_SEC in s
SpeedTimesTick(speed) ==
    IF prog = "pro" THEN (speed * (args.dt \div 4)) \div 90
    ELSE (speed * cfg.tick_sec * 25) \div 9

\* the speed cap of the running loop
SpeedCap == IF prog = "pro" THEN MAX_SPEED ELSE SPEED_CEIL

(* C23 - either loop, every tick duration tried: the distance a tick adds   *)
(* to the cumulative distance equals the tick's recorded post-update speed  *)
(* times the tick duration, is never negative and never exceeds the speed   *)
(* cap times the tick duration.                                             *)
C23_DistanceIsSpeedTimesTick ==
    ev.kind = "tick" =>
        /\ ev.d_step = SpeedTimesTick(ev.st.speed)
        /\ ev.d_step >= 0
        /\ ev.d_step <= SpeedTimesTick(SpeedCap)

----------------------------------------------------------------------------
(* C24 - either loop: after every completed tick latest.csv holds exactly   *)
(* one data row, equal to the last row of history.csv; history.csv has one  *)
(* row per processed tick, and a step only ever appends one row to it.      *)
C24_LatestIsLastHistoryRow ==
    /\ [](/\ Len(hist) = iter
          /\ iter > 0 => latest = <<hist[Len(hist)]>>)
    /\ [][hist' # hist =>
            /\ Len(hist') = Len(hist) + 1
            /\ SubSeq(hist', 1, Len(hist)) = hist]_vars

C24_Witness ==
    /\ ev.kind = "tick"
    /\ iter = 3
    /\ Len(hist) = 3
    /\ hist[3] # hist[2]
    /\ latest = <<hist[3]>>

----------------------------------------------------------------------------
(* C29 - either loop: the tick record is written before the lap rollover is *)
(* evaluated.  The record of the tick on which the in-lap distance reaches  *)
(* the lap length carries the number of the lap being completed, and the    *)
(* record of the next tick is the first one to carry the next lap number;   *)
(* lap numbers in history.csv never decrease and step by at most 1 from one *)
(* row to the next.                                                         *)
C29_RowBeforeRollover ==
    /\ [](ev.kind = "tick" =>
            LastRow.lap = IF ev.rollover THEN LapNo - 1 ELSE LapNo)
    /\ [](\A k \in 1..(Len(hist) - 1) : hist[k + 1].lap - hist[k].lap \in {0, 1})
    /\ [][(hist' # hist /\ hist # << >>) =>
            hist'[Len(hist')].lap
                = IF ev.rollover THEN LastRow.lap + 1 ELSE LastRow.lap]_vars

C29_Witness ==
    /\ prog = "pro"
    /\ ev.kind = "tick"
    /\ ~ev.rollover
    /\ Len(hist) >= 3
    /\ hist[Len(hist) - 2].lap = 1
    /\ hist[Len(hist) - 1].lap = 1
    /\ hist[Len(hist)].lap = 2

----------------------------------------------------------------------------
(* C25 - either loop: a publish call that raises never halts or corrupts    *)
(* the loop.  The iteration completes, the simulator state, the tick record *)
(* and the rollover decision are those of the same iteration with a         *)
(* successful publish, and the loop is at its test for the next tick.       *)
C25_PublishFailureIgnored ==
    (ev.kind # "exit" /\ ev.pub = "raises") =>
        /\ ev.kind = "tick"
        /\ pc = "loop"
        /\ (IF prog = "pro" THEN pro ELSE sim) = ev.ok.next
        /\ LastRow = ev.ok.row
        /\ latest = <<ev.ok.row>>
        /\ ev.rollover = ev.ok.rollover

C25_Witness ==
    /\ ev.kind = "tick"
    /\ ev.pub = "raises"
    /\ ev.rollover
    /\ pc = "loop"
    /\ LapNo = 2

(* C26 - either program: a connection to the broker that fails at startup   *)
(* is not fatal; the program reaches its loop without a client.             *)
C26_ConnectFailureNonFatal ==
    ev.kind = "connect_failed" => (pc = "loop" /\ client = "none")

(* C27 - simulator.py: when configs/bmw_i4.json is missing, malformed or    *)
(* lacks a required field, the program ends at startup and processes no     *)
(* tick.                                                                    *)
C27_ConfigFailFast ==
    (/\ prog = "sim"
     /\ pc # "start"
     /\ \/ env.config.status # "ok"
        \/ ~(RequiredFields \subseteq env.config.present)) =>
        (pc = "crashed" /\ iter = 0 /\ hist = << >>)

(* C28 - either loop: a write to history.csv or latest.csv that raises is   *)
(* not fatal; the loop goes on to its next tick.                            *)
C28_WriteFailureNonFatal ==
    ev.wr # "ok" => pc = "loop"

----------------------------------------------------------------------------
(* C30 - dashboard.py auto-inference: under any interleaving of Start and   *)
(* Stop clicks with the runner threads at most one runner thread is alive,  *)
(* and no runner that was alive at a Stop click launches another inference  *)
(* run afterwards.                                                          *)
C30_SingleRunner ==
    /\ Cardinality(Alive) <= 1
    /\ dash.again = {}

====
